---- MODULE Spec2Model ----
(***************************************************************************)
(* Cursor over an interval tree (src/src/classes/cursor.js).               *)
(*                                                                         *)
(* The cursor's constructor, next() and prev() are translated from         *)
(* cursor.js.  The tree the cursor walks (node.js, the interval tree and   *)
(* its traversal primitives) is an external collaborator of cursor.js;     *)
(* it is modelled from the documented interface: an arena of nodes with    *)
(* parent/left/right handles, ordered by interval key.                     *)
(***************************************************************************)
EXTENDS Integers, Sequences, FiniteSets, TLC

(* ------------------------------ bounds -------------------------------- *)
MaxEndpoint == 3        \* interval endpoints are 3, 5, ..., 2*MaxEndpoint+1
MaxNodes == 3           \* largest tree built
MaxCalls == 5           \* longest sequence of next()/prev() calls followed
MaxPairCalls == 3       \* calls followed when two cursors share the tree

(* ------------------------- handles and values -------------------------- *)
Null == 0               \* JavaScript null
Undefined == 0 - 1      \* JavaScript undefined (an unassigned `let`)
SearchNodeId == 0 - 2   \* handle of the synthetic node `new Node(interval)`
TypeError == 0 - 3      \* outcome of dereferencing null/undefined
SearchNodeId2 == 0 - 4  \* handle of a second cursor's synthetic node

Truthy(h) == h # Null /\ h # Undefined

NoInterval == <<>>      \* constructor called with interval = null

Endpoints == {2 * i + 1 : i \in 1..MaxEndpoint}
\* The intervals used: a single endpoint, or two neighbouring endpoints.
Intervals == {iv \in [low : Endpoints, high : Endpoints] :
                 iv.low <= iv.high /\ iv.high - iv.low <= 2}

\* Interval order: by low endpoint, then by high endpoint.
less_than(a, b) == a.low < b.low \/ (a.low = b.low /\ a.high < b.high)

(* ------------------------------ the tree ------------------------------ *)
\* A tree is [root, nodes]: nodes is the arena, a sequence of
\* [item |-> [key, value], left, right, parent]; handles index the arena.
EmptyTree == [root |-> Null, nodes |-> <<>>]

NewNode(key, value, parent) ==
    [item |-> [key |-> key, value |-> value],
     left |-> Null, right |-> Null, parent |-> parent]

RECURSIVE InsertionParent(_, _, _)
InsertionParent(t, cur, key) ==
    LET n == t.nodes[cur] IN
    IF less_than(key, n.item.key)
    THEN IF n.left = Null THEN cur ELSE InsertionParent(t, n.left, key)
    ELSE IF n.right = Null THEN cur ELSE InsertionParent(t, n.right, key)

\* insert(key, value): a new leaf at its place in key order.
insert(t, key, value) ==
    LET id == Len(t.nodes) + 1 IN
    IF t.root = Null
    THEN [root |-> id, nodes |-> <<NewNode(key, value, Null)>>]
    ELSE LET p == InsertionParent(t, t.root, key)
             linked == IF less_than(key, t.nodes[p].item.key)
                       THEN [t.nodes EXCEPT ![p].left = id]
                       ELSE [t.nodes EXCEPT ![p].right = id]
         IN [root |-> t.root, nodes |-> Append(linked, NewNode(key, value, p))]

\* The payload stored with the i-th inserted key.
Payload(i) == [payload |-> i]

RECURSIVE BuildTree(_, _)
BuildTree(keys, n) ==
    IF n = 0 THEN EmptyTree
    ELSE insert(BuildTree(keys, n - 1), keys[n], Payload(n))

RECURSIVE MinDepth(_, _)
MinDepth(t, h) ==
    IF h = Null THEN 0
    ELSE LET l == MinDepth(t, t.nodes[h].left)
             r == MinDepth(t, t.nodes[h].right)
         IN 1 + (IF l < r THEN l ELSE r)

RECURSIVE MaxDepth(_, _)
MaxDepth(t, h) ==
    IF h = Null THEN 0
    ELSE LET l == MaxDepth(t, t.nodes[h].left)
             r == MaxDepth(t, t.nodes[h].right)
         IN 1 + (IF l > r THEN l ELSE r)

\* The tree is balanced: no leaf is more than twice as deep as another
\* (the shapes a red-black tree can take).
Balanced(t) == MaxDepth(t, t.root) <= 2 * MinDepth(t, t.root)

KeySeqs == UNION {{s \in [1..n -> Intervals] :
                      \A i, j \in 1..n : i # j => s[i] # s[j]} : n \in 0..MaxNodes}

RECURSIVE Preorder(_, _)
Preorder(t, h) ==
    IF h = Null THEN <<>>
    ELSE <<h>> \o Preorder(t, t.nodes[h].left) \o Preorder(t, t.nodes[h].right)

\* Handles carry no meaning of their own: of the trees that differ only in
\* how the arena is numbered, the one numbered in preorder is kept.
Canonical(t) == Preorder(t, t.root) = [i \in 1..Len(t.nodes) |-> i]

Trees == {t \in {BuildTree(s, Len(s)) : s \in KeySeqs} : Balanced(t) /\ Canonical(t)}

(* ------------------------------- state -------------------------------- *)
VARIABLES
    tree,           \* this.tree: the tree the cursor is bound to
    interval,       \* the constructor's interval argument (NoInterval if null)
    search_node,    \* this.search_node: Null or the synthetic node's handle
    current_node,   \* this.current_node
    ret,            \* what the last call returned
    mapCalls,       \* the (value, key) arguments outputMapperFn got in the last call
    primCalls,      \* the tree primitives the last call invoked
    hist,           \* one record per call made so far
    cursor2,        \* a second Cursor object bound to the same tree
    frame           \* the call in progress, when calls are followed step by step

vars == <<tree, interval, search_node, current_node, ret, mapCalls, primCalls, hist,
          cursor2, frame>>

\* The node behind a handle: an arena node, or the synthetic node
\* `new Node(interval)` that is linked to nothing.
Node(h) == IF h = SearchNodeId THEN NewNode(interval, interval, Null)
           ELSE IF h = SearchNodeId2
                THEN NewNode(cursor2.interval, cursor2.interval, Null)
                ELSE tree.nodes[h]

IsNode(h) == h \in {SearchNodeId, SearchNodeId2} \/ h \in 1..Len(tree.nodes)

(* ------------------------ tree primitives ----------------------------- *)
RECURSIVE LeftMost(_)
LeftMost(h) == IF Node(h).left = Null THEN h ELSE LeftMost(Node(h).left)

RECURSIVE RightMost(_)
RightMost(h) == IF Node(h).right = Null THEN h ELSE RightMost(Node(h).right)

\* minimum_of(subtreeRoot); the argument must be a node.
local_minimum(node) == IF IsNode(node) THEN LeftMost(node) ELSE TypeError

\* maximum_of(subtreeRoot); the argument must be a node.
local_maximum(node) == IF IsNode(node) THEN RightMost(node) ELSE TypeError

\* Climb while the node is the right (resp. left) child of its parent.
RECURSIVE ClimbFromRight(_)
ClimbFromRight(h) ==
    LET p == Node(h).parent IN
    IF p # Null /\ Node(p).right = h THEN ClimbFromRight(p) ELSE p

RECURSIVE ClimbFromLeft(_)
ClimbFromLeft(h) ==
    LET p == Node(h).parent IN
    IF p # Null /\ Node(p).left = h THEN ClimbFromLeft(p) ELSE p

\* successor_of(node): next node in ascending key order, via parent links.
tree_successor(node) ==
    IF ~IsNode(node) THEN TypeError
    ELSE IF Node(node).right # Null THEN local_minimum(Node(node).right)
    ELSE ClimbFromRight(node)

\* predecessor_of(node): previous node in ascending key order.
tree_precursor(node) ==
    IF ~IsNode(node) THEN TypeError
    ELSE IF Node(node).left # Null THEN local_maximum(Node(node).left)
    ELSE ClimbFromLeft(node)

RECURSIVE SearchForward(_, _, _)
SearchForward(curr, key, best) ==
    IF curr = Null THEN best
    ELSE IF less_than(Node(curr).item.key, key)
         THEN SearchForward(Node(curr).right, key, best)
         ELSE SearchForward(Node(curr).left, key, curr)

RECURSIVE SearchBackward(_, _, _)
SearchBackward(curr, key, best) ==
    IF curr = Null THEN best
    ELSE IF less_than(key, Node(curr).item.key)
         THEN SearchBackward(Node(curr).left, key, best)
         ELSE SearchBackward(Node(curr).right, key, curr)

\* nearest_at_or_after(root, key): the closest node whose key is >= the
\* search node's key, or none.
tree_search_nearest_forward(node, searchNode) ==
    IF ~IsNode(searchNode) THEN TypeError
    ELSE SearchForward(node, Node(searchNode).item.key, Null)

\* nearest_at_or_before(root, key): the closest node whose key is <= the
\* search node's key, or none.
tree_search_nearest_backward(node, searchNode) ==
    IF ~IsNode(searchNode) THEN TypeError
    ELSE SearchBackward(node, Node(searchNode).item.key, Null)

(* ------------------------------ cursor -------------------------------- *)
\* The caller's mapping function: it pairs up what it was given.
outputMapperFn(value, key) == [kind |-> "mapped", value |-> value, key |-> key]

NullValue == [kind |-> "null"]
Thrown == [kind |-> "error"]
NotCalled == [kind |-> "none"]

\* No call in progress; steps counts the loop iterations of the last call.
Idle(steps) ==
    [pc |-> "idle", op |-> "none", prim |-> "none", at |-> Null, best |-> Null,
     found |-> Null, seek |-> FALSE, steps |-> steps, expect |-> Null]

\* constructor(tree, interval, outputMapperFn), for the second cursor.
NewCursor2(iv) ==
    [interval |-> iv,
     search_node |-> IF iv # NoInterval THEN SearchNodeId2 ELSE Null,
     current_node |-> Null,
     ret |-> NotCalled,
     calls |-> 0]

\* constructor(tree, interval, outputMapperFn)
InitCursor ==
    /\ tree \in Trees
    /\ interval \in Intervals \cup {NoInterval}
    /\ search_node = IF interval # NoInterval THEN SearchNodeId ELSE Null
    /\ current_node = Null
    /\ ret = NotCalled
    /\ mapCalls = <<>>
    /\ primCalls = <<>>
    /\ hist = <<>>

\* One cursor in use; the second one is built and never called.
Init ==
    /\ InitCursor
    /\ cursor2 = NewCursor2(NoInterval)
    /\ frame = Idle(0)

\* The arguments outputMapperFn is invoked with for the node found: one
\* invocation with (item.value, item.key), none when no node was found.
MapperArgs_Swapped(found) ==
    IF Truthy(found)
    THEN <<[value |-> Node(found).item.key, key |-> Node(found).item.value]>>
    ELSE <<>>

MapperArgs(found) ==
    IF Truthy(found)
    THEN <<[value |-> Node(found).item.value, key |-> Node(found).item.key]>>
    ELSE <<>>

\* One record of the call history.
CallRecord(op, out, node, prims, calls) ==
    [op |-> op, ret |-> out, from |-> current_node, seek |-> search_node,
     node |-> node, prims |-> prims, mapCalls |-> calls]

\* A variant of Finish that also stores the node found as the tree's root.
Finish_Reroot(op, found, prims, seek) ==
    LET calls == IF found = TypeError THEN <<>> ELSE MapperArgs(found)
        out == IF found = TypeError THEN Thrown
               ELSE IF calls # <<>> THEN outputMapperFn(calls[1].value, calls[1].key)
               ELSE NullValue
        node == IF found = TypeError THEN current_node ELSE found
    IN /\ current_node' = node
       /\ search_node' = IF found = TypeError THEN search_node ELSE seek
       /\ ret' = out
       /\ mapCalls' = calls
       /\ primCalls' = prims
       /\ hist' = Append(hist, CallRecord(op, out, node, prims, calls))
       /\ tree' = IF Truthy(found) THEN [tree EXCEPT !.root = found] ELSE tree
       /\ UNCHANGED <<interval, cursor2, frame>>

\* A variant of Finish that keeps the current position when no node was
\* found.
Finish_KeepPosition(op, found, prims, seek) ==
    LET calls == IF found = TypeError THEN <<>> ELSE MapperArgs(found)
        out == IF found = TypeError THEN Thrown
               ELSE IF calls # <<>> THEN outputMapperFn(calls[1].value, calls[1].key)
               ELSE NullValue
        node == IF Truthy(found) THEN found ELSE current_node
    IN /\ current_node' = node
       /\ search_node' = IF found = TypeError THEN search_node ELSE seek
       /\ ret' = out
       /\ mapCalls' = calls
       /\ primCalls' = prims
       /\ hist' = Append(hist, CallRecord(op, out, node, prims, calls))
       /\ UNCHANGED <<tree, interval, cursor2, frame>>

\* The tail of next() and prev(): store the node found as the current
\* position and return its mapped entry, or null.  A primitive that threw
\* leaves the cursor as it was.
Finish(op, found, prims, seek) ==
    LET calls == IF found = TypeError THEN <<>> ELSE MapperArgs(found)
        out == IF found = TypeError THEN Thrown
               ELSE IF calls # <<>> THEN outputMapperFn(calls[1].value, calls[1].key)
               ELSE NullValue
        node == IF found = TypeError THEN current_node ELSE found
    IN /\ current_node' = node
       /\ search_node' = IF found = TypeError THEN search_node ELSE seek
       /\ ret' = out
       /\ mapCalls' = calls
       /\ primCalls' = prims
       /\ hist' = Append(hist, CallRecord(op, out, node, prims, calls))
       /\ UNCHANGED <<tree, interval, cursor2, frame>>

\* next() taking the tree's maximum where it should take the minimum.
next_FromMaximum ==
    /\ Len(hist) < MaxCalls
    /\ IF Truthy(current_node)
       THEN Finish("next", tree_successor(current_node),
                   <<"tree_successor">>, search_node)
       ELSE IF Truthy(search_node)
       THEN Finish("next", tree_search_nearest_forward(tree.root, search_node),
                   <<"tree_search_nearest_forward">>, Null)
       ELSE IF Truthy(tree.root)
       THEN Finish("next", local_maximum(tree.root),
                   <<"local_maximum">>, search_node)
       ELSE Finish("next", Undefined, <<>>, search_node)

\* next() seeking backward where it should seek forward.
next_SeekBackward ==
    /\ Len(hist) < MaxCalls
    /\ IF Truthy(current_node)
       THEN Finish("next", tree_successor(current_node),
                   <<"tree_successor">>, search_node)
       ELSE IF Truthy(search_node)
       THEN Finish("next", tree_search_nearest_backward(tree.root, search_node),
                   <<"tree_search_nearest_backward">>, Null)
       ELSE IF Truthy(tree.root)
       THEN Finish("next", local_minimum(tree.root),
                   <<"local_minimum">>, search_node)
       ELSE Finish("next", Undefined, <<>>, search_node)

\* next() that stays exhausted once it has run past the last node.
next_Terminal ==
    /\ Len(hist) < MaxCalls
    /\ IF Truthy(current_node)
       THEN Finish("next", tree_successor(current_node),
                   <<"tree_successor">>, search_node)
       ELSE IF Truthy(search_node)
       THEN Finish("next", tree_search_nearest_forward(tree.root, search_node),
                   <<"tree_search_nearest_forward">>, Null)
       ELSE IF Truthy(tree.root) /\ hist = <<>>
       THEN Finish("next", local_minimum(tree.root),
                   <<"local_minimum">>, search_node)
       ELSE Finish("next", Undefined, <<>>, search_node)

\* next() without the test of this.tree.root.
next_NoRootTest ==
    /\ Len(hist) < MaxCalls
    /\ IF Truthy(current_node)
       THEN Finish("next", tree_successor(current_node),
                   <<"tree_successor">>, search_node)
       ELSE IF Truthy(search_node)
       THEN Finish("next", tree_search_nearest_forward(tree.root, search_node),
                   <<"tree_search_nearest_forward">>, Null)
       ELSE Finish("next", local_minimum(tree.root),
                   <<"local_minimum">>, search_node)

\* next() that keeps this.search_node after the seek.
next_KeepSeek ==
    /\ Len(hist) < MaxCalls
    /\ IF Truthy(current_node)
       THEN Finish("next", tree_successor(current_node),
                   <<"tree_successor">>, search_node)
       ELSE IF Truthy(search_node)
       THEN Finish("next", tree_search_nearest_forward(tree.root, search_node),
                   <<"tree_search_nearest_forward">>, search_node)
       ELSE IF Truthy(tree.root)
       THEN Finish("next", local_minimum(tree.root),
                   <<"local_minimum">>, search_node)
       ELSE Finish("next", Undefined, <<>>, search_node)

\* next() stepping to the predecessor of the current node.
next_Precursor ==
    /\ Len(hist) < MaxCalls
    /\ IF Truthy(current_node)
       THEN Finish("next", tree_precursor(current_node),
                   <<"tree_precursor">>, search_node)
       ELSE IF Truthy(search_node)
       THEN Finish("next", tree_search_nearest_forward(tree.root, search_node),
                   <<"tree_search_nearest_forward">>, Null)
       ELSE IF Truthy(tree.root)
       THEN Finish("next", local_minimum(tree.root),
                   <<"local_minimum">>, search_node)
       ELSE Finish("next", Undefined, <<>>, search_node)

\* next() that takes the synthetic search node itself as the node found.
next_AnchorAtSeek ==
    /\ Len(hist) < MaxCalls
    /\ IF Truthy(current_node)
       THEN Finish("next", tree_successor(current_node),
                   <<"tree_successor">>, search_node)
       ELSE IF Truthy(search_node)
       THEN Finish("next", search_node,
                   <<"tree_search_nearest_forward">>, Null)
       ELSE IF Truthy(tree.root)
       THEN Finish("next", local_minimum(tree.root),
                   <<"local_minimum">>, search_node)
       ELSE Finish("next", Undefined, <<>>, search_node)

next ==
    /\ Len(hist) < MaxCalls
    /\ IF Truthy(current_node)
       THEN Finish("next", tree_successor(current_node),
                   <<"tree_successor">>, search_node)
       ELSE IF Truthy(search_node)
       THEN Finish("next", tree_search_nearest_forward(tree.root, search_node),
                   <<"tree_search_nearest_forward">>, Null)
       ELSE IF Truthy(tree.root)
       THEN Finish("next", local_minimum(tree.root),
                   <<"local_minimum">>, search_node)
       ELSE Finish("next", Undefined, <<>>, search_node)

\* prev() taking the tree's minimum where it should take the maximum.
prev_FromMinimum ==
    /\ Len(hist) < MaxCalls
    /\ IF Truthy(current_node)
       THEN Finish("prev", tree_precursor(current_node),
                   <<"tree_precursor">>, search_node)
       ELSE IF Truthy(search_node)
       THEN Finish("prev", tree_search_nearest_backward(tree.root, search_node),
                   <<"tree_search_nearest_backward">>, Null)
       ELSE IF Truthy(tree.root)
       THEN Finish("prev", local_minimum(tree.root),
                   <<"local_minimum">>, search_node)
       ELSE Finish("prev", Undefined, <<>>, search_node)

\* prev() stepping to the successor of the current node.
prev_Successor ==
    /\ Len(hist) < MaxCalls
    /\ IF Truthy(current_node)
       THEN Finish("prev", tree_successor(current_node),
                   <<"tree_successor">>, search_node)
       ELSE IF Truthy(search_node)
       THEN Finish("prev", tree_search_nearest_backward(tree.root, search_node),
                   <<"tree_search_nearest_backward">>, Null)
       ELSE IF Truthy(tree.root)
       THEN Finish("prev", local_maximum(tree.root),
                   <<"local_maximum">>, search_node)
       ELSE Finish("prev", Undefined, <<>>, search_node)

\* prev() that keeps this.search_node after the seek.
prev_KeepSeek ==
    /\ Len(hist) < MaxCalls
    /\ IF Truthy(current_node)
       THEN Finish("prev", tree_precursor(current_node),
                   <<"tree_precursor">>, search_node)
       ELSE IF Truthy(search_node)
       THEN Finish("prev", tree_search_nearest_backward(tree.root, search_node),
                   <<"tree_search_nearest_backward">>, search_node)
       ELSE IF Truthy(tree.root)
       THEN Finish("prev", local_maximum(tree.root),
                   <<"local_maximum">>, search_node)
       ELSE Finish("prev", Undefined, <<>>, search_node)

\* prev() without the test of this.tree.root.
prev_NoRootTest ==
    /\ Len(hist) < MaxCalls
    /\ IF Truthy(current_node)
       THEN Finish("prev", tree_precursor(current_node),
                   <<"tree_precursor">>, search_node)
       ELSE IF Truthy(search_node)
       THEN Finish("prev", tree_search_nearest_backward(tree.root, search_node),
                   <<"tree_search_nearest_backward">>, Null)
       ELSE Finish("prev", local_maximum(tree.root),
                   <<"local_maximum">>, search_node)

\* prev() that stays exhausted once it has run past the first node.
prev_Terminal ==
    /\ Len(hist) < MaxCalls
    /\ IF Truthy(current_node)
       THEN Finish("prev", tree_precursor(current_node),
                   <<"tree_precursor">>, search_node)
       ELSE IF Truthy(search_node)
       THEN Finish("prev", tree_search_nearest_backward(tree.root, search_node),
                   <<"tree_search_nearest_backward">>, Null)
       ELSE IF Truthy(tree.root) /\ hist = <<>>
       THEN Finish("prev", local_maximum(tree.root),
                   <<"local_maximum">>, search_node)
       ELSE Finish("prev", Undefined, <<>>, search_node)

prev ==
    /\ Len(hist) < MaxCalls
    /\ IF Truthy(current_node)
       THEN Finish("prev", tree_precursor(current_node),
                   <<"tree_precursor">>, search_node)
       ELSE IF Truthy(search_node)
       THEN Finish("prev", tree_search_nearest_backward(tree.root, search_node),
                   <<"tree_search_nearest_backward">>, Null)
       ELSE IF Truthy(tree.root)
       THEN Finish("prev", local_maximum(tree.root),
                   <<"local_maximum">>, search_node)
       ELSE Finish("prev", Undefined, <<>>, search_node)

Next == next \/ prev

Spec == Init /\ [][Next]_vars

(* --------------------- two cursors over one tree ---------------------- *)
\* The tail of next() and prev() on the second cursor, which also stores
\* the node found in the first cursor's current position.
FinishSecond_Shared(found, seek) ==
    LET calls == IF found = TypeError THEN <<>> ELSE MapperArgs(found)
        out == IF found = TypeError THEN Thrown
               ELSE IF calls # <<>> THEN outputMapperFn(calls[1].value, calls[1].key)
               ELSE NullValue
    IN /\ cursor2' = [cursor2 EXCEPT
                         !.current_node = IF found = TypeError THEN @ ELSE found,
                         !.search_node = IF found = TypeError THEN @ ELSE seek,
                         !.ret = out,
                         !.calls = @ + 1]
       /\ current_node' = IF found = TypeError THEN current_node ELSE found
       /\ UNCHANGED <<tree, interval, search_node, ret, mapCalls, primCalls, hist, frame>>

\* The tail of next() and prev() on the second cursor.
FinishSecond(found, seek) ==
    LET calls == IF found = TypeError THEN <<>> ELSE MapperArgs(found)
        out == IF found = TypeError THEN Thrown
               ELSE IF calls # <<>> THEN outputMapperFn(calls[1].value, calls[1].key)
               ELSE NullValue
    IN /\ cursor2' = [cursor2 EXCEPT
                         !.current_node = IF found = TypeError THEN @ ELSE found,
                         !.search_node = IF found = TypeError THEN @ ELSE seek,
                         !.ret = out,
                         !.calls = @ + 1]
       /\ UNCHANGED <<tree, interval, search_node, current_node, ret, mapCalls,
                      primCalls, hist, frame>>

PairBudget == Len(hist) + cursor2.calls < MaxPairCalls

\* next() and prev() called on the first cursor.
first_next == PairBudget /\ next
first_prev == PairBudget /\ prev

\* next() called on the second cursor.
second_next ==
    /\ PairBudget
    /\ IF Truthy(cursor2.current_node)
       THEN FinishSecond(tree_successor(cursor2.current_node), cursor2.search_node)
       ELSE IF Truthy(cursor2.search_node)
       THEN FinishSecond(tree_search_nearest_forward(tree.root, cursor2.search_node), Null)
       ELSE IF Truthy(tree.root)
       THEN FinishSecond(local_minimum(tree.root), cursor2.search_node)
       ELSE FinishSecond(Undefined, cursor2.search_node)

\* prev() called on the second cursor.
second_prev ==
    /\ PairBudget
    /\ IF Truthy(cursor2.current_node)
       THEN FinishSecond(tree_precursor(cursor2.current_node), cursor2.search_node)
       ELSE IF Truthy(cursor2.search_node)
       THEN FinishSecond(tree_search_nearest_backward(tree.root, cursor2.search_node), Null)
       ELSE IF Truthy(tree.root)
       THEN FinishSecond(local_maximum(tree.root), cursor2.search_node)
       ELSE FinishSecond(Undefined, cursor2.search_node)

\* The second cursor is built without an interval or with [5,5].
SecondIntervals == {NoInterval, [low |-> 5, high |-> 5]}

InitTwo ==
    /\ InitCursor
    /\ cursor2 \in {NewCursor2(iv) : iv \in SecondIntervals}
    /\ frame = Idle(0)

NextTwo == first_next \/ first_prev \/ second_next \/ second_prev

SpecTwo == InitTwo /\ [][NextTwo]_vars

(* ---------------------- calls followed step by step ------------------- *)
\* A call in progress inside a tree primitive.
Running(op, prim, at, seek, expect) ==
    [pc |-> "loop", op |-> op, prim |-> prim, at |-> at, best |-> Null,
     found |-> Null, seek |-> seek, steps |-> 0, expect |-> expect]

\* A call whose primitive, if any, has returned `found`.
Returning(f, found) ==
    [f EXCEPT !.pc = "return", !.found = found]

\* The branch next() or prev() takes on entry, and the primitive it calls.
Dispatch(op) ==
    IF Truthy(current_node)
    THEN (IF op = "next"
          THEN Running(op, "tree_successor", current_node, FALSE,
                       tree_successor(current_node))
          ELSE Running(op, "tree_precursor", current_node, FALSE,
                       tree_precursor(current_node)))
    ELSE IF Truthy(search_node)
    THEN (IF op = "next"
          THEN Running(op, "tree_search_nearest_forward", tree.root, TRUE,
                       tree_search_nearest_forward(tree.root, search_node))
          ELSE Running(op, "tree_search_nearest_backward", tree.root, TRUE,
                       tree_search_nearest_backward(tree.root, search_node)))
    ELSE IF Truthy(tree.root)
    THEN (IF op = "next"
          THEN Running(op, "local_minimum", tree.root, FALSE, local_minimum(tree.root))
          ELSE Running(op, "local_maximum", tree.root, FALSE, local_maximum(tree.root)))
    ELSE [Idle(0) EXCEPT !.pc = "return", !.op = op, !.found = Undefined,
                         !.expect = Undefined]

call_next ==
    /\ frame.pc = "idle"
    /\ frame' = Dispatch("next")
    /\ UNCHANGED <<tree, interval, search_node, current_node, ret, mapCalls,
                   primCalls, hist, cursor2>>

call_prev ==
    /\ frame.pc = "idle"
    /\ frame' = Dispatch("prev")
    /\ UNCHANGED <<tree, interval, search_node, current_node, ret, mapCalls,
                   primCalls, hist, cursor2>>

\* One iteration of the loop of the tree primitive in progress.
PrimitiveStep(f) ==
    LET at == f.at
        key == Node(search_node).item.key
        g == [f EXCEPT !.steps = @ + 1]
    IN CASE f.prim = "local_minimum" ->
              IF Node(at).left # Null THEN [g EXCEPT !.at = Node(at).left]
              ELSE Returning(g, at)
         [] f.prim = "local_maximum" ->
              IF Node(at).right # Null THEN [g EXCEPT !.at = Node(at).right]
              ELSE Returning(g, at)
         [] f.prim = "tree_successor" ->
              IF Node(at).right # Null
              THEN [g EXCEPT !.prim = "local_minimum", !.at = Node(at).right]
              ELSE [g EXCEPT !.prim = "climb_from_right"]
         [] f.prim = "tree_precursor" ->
              IF Node(at).left # Null
              THEN [g EXCEPT !.prim = "local_maximum", !.at = Node(at).left]
              ELSE [g EXCEPT !.prim = "climb_from_left"]
         [] f.prim = "climb_from_right" ->
              LET p == Node(at).parent IN
              IF p # Null /\ Node(p).right = at THEN [g EXCEPT !.at = p]
              ELSE Returning(g, p)
         [] f.prim = "climb_from_left" ->
              LET p == Node(at).parent IN
              IF p # Null /\ Node(p).left = at THEN [g EXCEPT !.at = p]
              ELSE Returning(g, p)
         [] f.prim = "tree_search_nearest_forward" ->
              IF at = Null THEN Returning(g, f.best)
              ELSE IF less_than(Node(at).item.key, key)
                   THEN [g EXCEPT !.at = Node(at).right]
                   ELSE [g EXCEPT !.best = at, !.at = Node(at).left]
         [] f.prim = "tree_search_nearest_backward" ->
              IF at = Null THEN Returning(g, f.best)
              ELSE IF less_than(key, Node(at).item.key)
                   THEN [g EXCEPT !.at = Node(at).left]
                   ELSE [g EXCEPT !.best = at, !.at = Node(at).right]

primitive_step ==
    /\ frame.pc = "loop"
    /\ frame' = PrimitiveStep(frame)
    /\ UNCHANGED <<tree, interval, search_node, current_node, ret, mapCalls,
                   primCalls, hist, cursor2>>

\* The tail of a call that starts the call over while it has found no node
\* in a tree that has some.
return_step_Retry ==
    /\ frame.pc = "return"
    /\ IF ~Truthy(frame.found) /\ Truthy(tree.root)
       THEN /\ frame' = Dispatch(frame.op)
            /\ UNCHANGED <<search_node, current_node, ret, mapCalls>>
       ELSE /\ search_node' = IF frame.seek THEN Null ELSE search_node
            /\ current_node' = frame.found
            /\ mapCalls' = MapperArgs(frame.found)
            /\ ret' = IF Truthy(frame.found)
                      THEN outputMapperFn(Node(frame.found).item.value,
                                          Node(frame.found).item.key)
                      ELSE NullValue
            /\ frame' = Idle(frame.steps)
    /\ UNCHANGED <<tree, interval, primCalls, hist, cursor2>>

\* The tail of next() and prev(): drop the seek target if it was used,
\* store the node found as the current position, return its mapped entry or
\* null.
return_step ==
    /\ frame.pc = "return"
    /\ search_node' = IF frame.seek THEN Null ELSE search_node
    /\ current_node' = frame.found
    /\ mapCalls' = MapperArgs(frame.found)
    /\ ret' = IF Truthy(frame.found)
              THEN outputMapperFn(Node(frame.found).item.value,
                                  Node(frame.found).item.key)
              ELSE NullValue
    /\ frame' = Idle(frame.steps)
    /\ UNCHANGED <<tree, interval, primCalls, hist, cursor2>>

NextSteps == call_next \/ call_prev \/ primitive_step \/ return_step

\* A call that has started keeps running: the code is synchronous.
SpecSteps ==
    Init /\ [][NextSteps]_vars /\ WF_vars(primitive_step) /\ WF_vars(return_step)

\* Followed step by step, a primitive returns what it returns as a whole.
StepsAgree == frame.pc = "return" => frame.found = frame.expect

TypeOK ==
    /\ tree \in Trees
    /\ search_node \in {Null, SearchNodeId}
    /\ Len(hist) <= MaxCalls

(* ------------------- reference notions of key order ------------------- *)
Handles == 1..Len(tree.nodes)
Size == Len(tree.nodes)
KeyOf(h) == tree.nodes[h].item.key
Keys == {KeyOf(h) : h \in Handles}

\* Position of a node in ascending key order, counted from 1.
Rank(h) == 1 + Cardinality({g \in Handles : less_than(KeyOf(g), KeyOf(h))})
NodeOfRank(r) == CHOOSE h \in Handles : Rank(h) = r

\* What a call returns when it reaches node h (Null: no node).
EntryOf(h) ==
    IF h = Null THEN NullValue
    ELSE outputMapperFn(tree.nodes[h].item.value, tree.nodes[h].item.key)

AtOrAfter(k) == {h \in Handles : ~less_than(KeyOf(h), k)}
AtOrBefore(k) == {h \in Handles : ~less_than(k, KeyOf(h))}
NearestAtOrAfter(k) ==
    IF AtOrAfter(k) = {} THEN Null
    ELSE CHOOSE h \in AtOrAfter(k) : \A g \in AtOrAfter(k) : ~less_than(KeyOf(g), KeyOf(h))
NearestAtOrBefore(k) ==
    IF AtOrBefore(k) = {} THEN Null
    ELSE CHOOSE h \in AtOrBefore(k) : \A g \in AtOrBefore(k) : ~less_than(KeyOf(h), KeyOf(g))

PredecessorOf(h) == IF Rank(h) = 1 THEN Null ELSE NodeOfRank(Rank(h) - 1)

Calls == 1..Len(hist)
OnlyCalls(op) == \A i \in Calls : hist[i].op = op
Iv(lo, hi) == [low |-> lo, high |-> hi]

(* ------------------------------- C1 ----------------------------------- *)
\* C1: on a cursor built without an interval, the i-th of n successive
\* next() calls returns the mapped entry of the i-th node in ascending key
\* order, the results' keys strictly ascend, and call n+1 returns null.
C1_NextAscending ==
    (interval = NoInterval /\ OnlyCalls("next")) =>
        /\ \A i \in Calls :
              /\ i <= Size => hist[i].ret = EntryOf(NodeOfRank(i))
              /\ i = Size + 1 => hist[i].ret = NullValue
        /\ \A i, j \in Calls :
              (i < j /\ j <= Size) => less_than(hist[i].ret.key, hist[j].ret.key)

C1_Witness ==
    /\ interval = NoInterval
    /\ OnlyCalls("next")
    /\ Size >= 3
    /\ Len(hist) = Size + 1
    /\ ret = NullValue

(* ------------------------------- C2 ----------------------------------- *)
\* C2: on a cursor built without an interval, the i-th of n successive
\* prev() calls returns the mapped entry of the i-th node in descending key
\* order, the results' keys strictly descend, and call n+1 returns null.
C2_PrevDescending ==
    (interval = NoInterval /\ OnlyCalls("prev")) =>
        /\ \A i \in Calls :
              /\ i <= Size => hist[i].ret = EntryOf(NodeOfRank(Size + 1 - i))
              /\ i = Size + 1 => hist[i].ret = NullValue
        /\ \A i, j \in Calls :
              (i < j /\ j <= Size) => less_than(hist[j].ret.key, hist[i].ret.key)

C2_Witness ==
    /\ interval = NoInterval
    /\ OnlyCalls("prev")
    /\ Size >= 3
    /\ Len(hist) = Size + 1
    /\ ret = NullValue

(* ------------------------------- C3 ----------------------------------- *)
\* C3: the first call on a cursor built with interval K returns the mapped
\* entry of the nearest node at or after K if it is next(), of the nearest
\* node at or before K if it is prev(), and null when there is no such
\* node; with keys [3,3] and [7,7] and K = [5,5] that is [7,7] and [3,3].
C3_FirstCallSeeks ==
    (interval # NoInterval /\ Len(hist) >= 1) =>
        /\ hist[1].op = "next" => hist[1].ret = EntryOf(NearestAtOrAfter(interval))
        /\ hist[1].op = "prev" => hist[1].ret = EntryOf(NearestAtOrBefore(interval))
        /\ (Keys = {Iv(3, 3), Iv(7, 7)} /\ interval = Iv(5, 5)) =>
              /\ hist[1].ret.kind = "mapped"
              /\ hist[1].op = "next" => hist[1].ret.key = Iv(7, 7)
              /\ hist[1].op = "prev" => hist[1].ret.key = Iv(3, 3)

C3_Witness ==
    /\ Keys = {Iv(3, 3), Iv(7, 7)}
    /\ interval = Iv(5, 5)
    /\ Len(hist) = 1
    /\ hist[1].op = "next"
    /\ ret.kind = "mapped"
    /\ ret.key = Iv(7, 7)

(* ------------------------------- C4 ----------------------------------- *)
\* C4: on a non-empty tree, a next() made right after a next() that
\* returned null returns the minimum entry, and a prev() made right after a
\* prev() that returned null returns the maximum entry.
C4_WrapsAround ==
    Size >= 1 =>
        \A i \in Calls : i >= 2 /\ hist[i - 1].ret = NullValue /\ hist[i - 1].op = hist[i].op =>
            /\ hist[i].op = "next" => hist[i].ret = EntryOf(NodeOfRank(1))
            /\ hist[i].op = "prev" => hist[i].ret = EntryOf(NodeOfRank(Size))

C4_Witness ==
    /\ interval = NoInterval
    /\ OnlyCalls("next")
    /\ Size >= 2
    /\ Len(hist) = Size + 2
    /\ hist[Size + 1].ret = NullValue
    /\ ret = EntryOf(NodeOfRank(1))

(* ------------------------------- C5 ----------------------------------- *)
\* C5 as stated: in a tree of at least 2 entries, a prev() made right after
\* a next() that returned the entry of node s returns the mapped entry of
\* the node just before s in key order.
C5_PrevReturnsPredecessorEntry ==
    Size >= 2 =>
        \A i \in Calls : i >= 2 /\ hist[i - 1].op = "next" /\ Truthy(hist[i - 1].node)
                         /\ hist[i].op = "prev" =>
            \E p \in Handles : /\ Rank(p) + 1 = Rank(hist[i - 1].node)
                               /\ hist[i].ret = EntryOf(p)

\* C5 amended: in a tree of at least 2 entries, a prev() made right after a
\* next() that returned the entry of node s returns the mapped entry of the
\* node just before s in key order when s is not the tree's minimum, and
\* null when s is the tree's minimum.
C5_PrevAfterNext ==
    Size >= 2 =>
        \A i \in Calls : i >= 2 /\ hist[i - 1].op = "next" /\ Truthy(hist[i - 1].node)
                         /\ hist[i].op = "prev" =>
            /\ hist[i - 1].ret = EntryOf(hist[i - 1].node)
            /\ hist[i].ret = EntryOf(PredecessorOf(hist[i - 1].node))

C5_Witness ==
    /\ Size >= 2
    /\ Len(hist) >= 3
    /\ hist[Len(hist) - 1].op = "next"
    /\ Truthy(hist[Len(hist) - 1].node)
    /\ Rank(hist[Len(hist) - 1].node) >= 2
    /\ hist[Len(hist)].op = "prev"
    /\ ret = EntryOf(NodeOfRank(Rank(hist[Len(hist) - 1].node) - 1))

(* ------------------------------- C6 ----------------------------------- *)
\* C6: on an empty tree every call, whatever the order of next() and prev()
\* and whether or not the cursor was built with an interval, returns null,
\* throws nothing, and leaves the cursor with no current position and no
\* seek target.
C6_EmptyTreeAlwaysNull ==
    tree.root = Null =>
        /\ \A i \in Calls : /\ hist[i].ret = NullValue
                            /\ ~Truthy(hist[i].node)
        /\ ~Truthy(current_node)
        /\ Len(hist) >= 1 => search_node = Null

C6_Witness ==
    /\ tree.root = Null
    /\ interval # NoInterval
    /\ Len(hist) >= 4
    /\ \E i, j \in Calls : hist[i].op = "next" /\ hist[j].op = "prev"
    /\ ret = NullValue

(* ------------------------------- C7 ----------------------------------- *)
\* C7: a call that reaches a node invokes outputMapperFn exactly once, with
\* that node's (value, key); a call that reaches no node does not invoke it.
C7_MapperOncePerNode ==
    /\ \A i \in Calls :
          IF Truthy(hist[i].node)
          THEN hist[i].mapCalls = <<[value |-> tree.nodes[hist[i].node].item.value,
                                     key |-> tree.nodes[hist[i].node].item.key]>>
          ELSE hist[i].mapCalls = <<>>
    /\ Len(hist) >= 1 => mapCalls = hist[Len(hist)].mapCalls

C7_Witness ==
    /\ Len(hist) >= 3
    /\ \E i, j \in Calls : /\ Len(hist[i].mapCalls) = 1
                           /\ hist[i].mapCalls[1].key = KeyOf(hist[i].node)
                           /\ hist[j].mapCalls = <<>>
                           /\ hist[j].ret = NullValue

(* ------------------------------- C8 ----------------------------------- *)
\* C8: the first call, next() or prev(), consumes the seek target: after at
\* least one call the seek target is absent, and the cursor never holds a
\* seek target together with a current position.
C8_SeekConsumedOnce ==
    /\ Len(hist) >= 1 => search_node = Null
    /\ \A i \in Calls : i >= 2 => hist[i].seek = Null
    /\ ~(Truthy(search_node) /\ Truthy(current_node))

C8_Witness ==
    /\ interval # NoInterval
    /\ Len(hist) >= 2
    /\ hist[1].seek = SearchNodeId
    /\ Truthy(hist[1].node)
    /\ search_node = Null

(* ------------------------------- C9 ----------------------------------- *)
SeekPrimitives == {"tree_search_nearest_forward", "tree_search_nearest_backward"}

\* C9: no call after the first performs a nearest-at-or-after/before
\* search; a call made with no current position after the first call
\* anchors at the tree's minimum (next) or maximum (prev), whatever the
\* interval the cursor was built with.
C9_NoSeekAfterFirstCall ==
    \A i \in Calls : i >= 2 =>
        /\ \A k \in 1..Len(hist[i].prims) : hist[i].prims[k] \notin SeekPrimitives
        /\ (Size >= 1 /\ ~Truthy(hist[i].from)) =>
              /\ hist[i].op = "next" => hist[i].ret = EntryOf(NodeOfRank(1))
              /\ hist[i].op = "prev" => hist[i].ret = EntryOf(NodeOfRank(Size))

C9_Witness ==
    /\ interval # NoInterval
    /\ Size >= 2
    /\ NearestAtOrAfter(interval) # Null
    /\ NearestAtOrAfter(interval) # NodeOfRank(1)
    /\ OnlyCalls("next")
    /\ Len(hist) >= 3
    /\ hist[Len(hist) - 1].ret = NullValue
    /\ ret = EntryOf(NodeOfRank(1))

(* ------------------------------- C10 ---------------------------------- *)
\* C10: a call changes nothing in the tree: the root, the set of nodes,
\* their entries and their parent/child links are after the call what they
\* were before it.
C10_TreeUnchanged ==
    [][/\ tree'.root = tree.root
       /\ tree'.nodes = tree.nodes]_vars

C10_Witness ==
    /\ Size >= 2
    /\ Len(hist) >= 2
    /\ \E i, j \in Calls : /\ hist[i].op = "next" /\ hist[j].op = "prev"
                           /\ Truthy(hist[i].node) /\ hist[i].node # tree.root

(* ------------------------------- C11 ---------------------------------- *)
\* C11: after every call, the call returned null exactly when the cursor's
\* current position is none; otherwise it returned outputMapperFn of the
\* value and key of the node that is now the current position.
C11_ReturnMatchesPosition ==
    /\ Len(hist) >= 1 =>
          /\ (ret = NullValue) <=> ~Truthy(current_node)
          /\ Truthy(current_node) =>
                /\ current_node \in Handles
                /\ ret = EntryOf(current_node)
    /\ \A i \in Calls :
          /\ (hist[i].ret = NullValue) <=> ~Truthy(hist[i].node)
          /\ Truthy(hist[i].node) => hist[i].ret = EntryOf(hist[i].node)

C11_Witness ==
    /\ Size >= 2
    /\ Len(hist) >= 3
    /\ \E i \in Calls : hist[i].ret = NullValue /\ ~Truthy(hist[i].node) /\ Truthy(hist[i].from)
    /\ Truthy(current_node)
    /\ ret = EntryOf(current_node)

(* ------------------------------- C12 ---------------------------------- *)
\* A call made with no current position and no seek target on a tree
\* without root.
NothingToDelegate(i) ==
    ~Truthy(hist[i].from) /\ ~Truthy(hist[i].seek) /\ ~Truthy(tree.root)

\* C12 as stated: every call, in every cursor state and for every tree,
\* the empty one included, invokes exactly one tree primitive.
C12_ExactlyOnePrimitive ==
    \A i \in Calls : Len(hist[i].prims) = 1

\* C12 amended: every call invokes exactly one tree primitive (successor or
\* predecessor from a current position, else the nearest search for a seek
\* target, else minimum or maximum of the root), except a call made with no
\* current position and no seek target on an empty tree, which invokes none.
C12_OnePrimitiveUnlessEmpty ==
    /\ \A i \in Calls :
          /\ NothingToDelegate(i) => hist[i].prims = <<>>
          /\ ~NothingToDelegate(i) =>
                /\ Len(hist[i].prims) = 1
                /\ Truthy(hist[i].from) =>
                      hist[i].prims[1] \in {"tree_successor", "tree_precursor"}
                /\ (~Truthy(hist[i].from) /\ Truthy(hist[i].seek)) =>
                      hist[i].prims[1] \in SeekPrimitives
                /\ (~Truthy(hist[i].from) /\ ~Truthy(hist[i].seek)) =>
                      hist[i].prims[1] \in {"local_minimum", "local_maximum"}
    /\ Len(hist) >= 1 => primCalls = hist[Len(hist)].prims

C12_Witness ==
    /\ tree.root = Null
    /\ interval # NoInterval
    /\ Len(hist) >= 3
    /\ Len(hist[1].prims) = 1
    /\ hist[2].prims = <<>>
    /\ primCalls = <<>>

(* ------------------------------- C13 ---------------------------------- *)
\* The node a lone cursor reaches by a call made from position `from` with
\* seek target `seek`, in terms of key order.
SoloNode(op, from, seek) ==
    IF Truthy(from)
    THEN IF op = "next"
         THEN (IF Rank(from) = Size THEN Null ELSE NodeOfRank(Rank(from) + 1))
         ELSE PredecessorOf(from)
    ELSE IF Truthy(seek)
    THEN (IF op = "next" THEN NearestAtOrAfter(interval) ELSE NearestAtOrBefore(interval))
    ELSE IF Size = 0 THEN Null
    ELSE IF op = "next" THEN NodeOfRank(1) ELSE NodeOfRank(Size)

\* The first cursor's calls follow one another as if it were alone: each
\* starts where its previous call ended and returns what a lone cursor
\* returns from there.
SoloRun ==
    /\ \A i \in Calls :
          /\ hist[i].from = (IF i = 1 THEN Null ELSE hist[i - 1].node)
          /\ hist[i].seek = (IF i = 1 /\ interval # NoInterval THEN SearchNodeId ELSE Null)
          /\ hist[i].ret = EntryOf(SoloNode(hist[i].op, hist[i].from, hist[i].seek))
    /\ Len(hist) >= 1 => current_node = hist[Len(hist)].node

\* C13: with two cursors on one unmodified tree, a call on one cursor
\* leaves the other's current position and seek target (and the tree)
\* unchanged, and the first cursor's results are those of a lone cursor.
C13_CursorsIndependent ==
    [][/\ cursor2' # cursor2 => UNCHANGED <<search_node, current_node, ret, hist>>
       /\ hist' # hist => cursor2' = cursor2
       /\ tree' = tree
       /\ SoloRun']_vars

C13_Witness ==
    /\ Size >= 2
    /\ Len(hist) >= 2
    /\ cursor2.calls >= 1
    /\ Truthy(current_node)
    /\ Truthy(cursor2.current_node)
    /\ current_node # cursor2.current_node
    /\ cursor2.interval # interval

(* ------------------------------- C14 ---------------------------------- *)
\* C14: every next() and prev() call that has started returns, whatever
\* the cursor's state and the tree, the empty tree and calls made after
\* running off an end included.
C14_CallsTerminate == (frame.pc # "idle") ~> (frame.pc = "idle")

C14_Witness ==
    /\ frame.pc = "idle"
    /\ frame.steps >= 3
    /\ Size >= 3
    /\ Truthy(current_node)
    /\ ret = EntryOf(current_node)

(* ------------------------------- C15 ---------------------------------- *)
\* C15: on a cursor built with interval K, successive next() calls return
\* the entries whose key is at or after K, each once, in ascending key
\* order, and then null; successive prev() calls return the entries whose
\* key is at or before K in descending key order, and then null.
C15_SeededTraversal ==
    interval # NoInterval =>
        LET after == Cardinality(AtOrAfter(interval))
            before == Cardinality(AtOrBefore(interval))
        IN /\ OnlyCalls("next") =>
                \A i \in Calls :
                    /\ i <= after =>
                          /\ hist[i].ret = EntryOf(NodeOfRank(Size - after + i))
                          /\ hist[i].node \in AtOrAfter(interval)
                    /\ i = after + 1 => hist[i].ret = NullValue
           /\ OnlyCalls("prev") =>
                \A i \in Calls :
                    /\ i <= before =>
                          /\ hist[i].ret = EntryOf(NodeOfRank(before + 1 - i))
                          /\ hist[i].node \in AtOrBefore(interval)
                    /\ i = before + 1 => hist[i].ret = NullValue

C15_Witness ==
    /\ interval # NoInterval
    /\ Size >= 3
    /\ Cardinality(AtOrAfter(interval)) = 2
    /\ interval \notin Keys
    /\ OnlyCalls("next")
    /\ Len(hist) = 3
    /\ hist[2].ret = EntryOf(NodeOfRank(Size))
    /\ ret = NullValue

(* ------------------------------- C16 ---------------------------------- *)
\* C16: from a cursor positioned at node n, the tree's minimum and maximum
\* included, next() then prev() leaves the cursor at n with prev()
\* returning n's mapped entry, and so does prev() then next().
C16_BackAndForth ==
    \A i \in Calls :
        (/\ i >= 2
         /\ Truthy(hist[i - 1].from)
         /\ hist[i - 1].op # hist[i].op) =>
            /\ hist[i].node = hist[i - 1].from
            /\ hist[i].ret = EntryOf(hist[i - 1].from)

C16_Witness ==
    /\ Len(hist) >= 3
    /\ Size >= 2
    /\ hist[Len(hist) - 1].op = "next"
    /\ hist[Len(hist)].op = "prev"
    /\ hist[Len(hist) - 1].from = NodeOfRank(Size)
    /\ hist[Len(hist) - 1].ret = NullValue
    /\ current_node = NodeOfRank(Size)

(* ------------------------------- C17 ---------------------------------- *)
\* C17: on a non-empty tree a call made right after a call that returned
\* null returns the minimum entry if it is next() and the maximum entry if
\* it is prev(); no two consecutive calls both return null.
C17_NoTwoNullsInARow ==
    Size >= 1 =>
        \A i \in Calls : (i >= 2 /\ hist[i - 1].ret = NullValue) =>
            /\ hist[i].ret # NullValue
            /\ hist[i].op = "next" => hist[i].ret = EntryOf(NodeOfRank(1))
            /\ hist[i].op = "prev" => hist[i].ret = EntryOf(NodeOfRank(Size))

C17_Witness ==
    /\ interval # NoInterval
    /\ Size >= 2
    /\ Len(hist) >= 2
    /\ hist[1].op = "next"
    /\ hist[1].ret = NullValue
    /\ hist[2].op = "prev"
    /\ hist[2].ret = EntryOf(NodeOfRank(Size))

(* ------------------------------- C18 ---------------------------------- *)
\* C18: the current position is always none or a node of the tree, never
\* the synthetic node built from the constructor's interval.
C18_PositionInTree ==
    /\ current_node \in {Null, Undefined} \cup Handles
    /\ current_node # SearchNodeId
    /\ \A i \in Calls : hist[i].node \in {Null, Undefined} \cup Handles

C18_Witness ==
    /\ interval # NoInterval
    /\ interval \notin Keys
    /\ Len(hist) >= 2
    /\ hist[1].seek = SearchNodeId
    /\ current_node \in Handles

====
